---- MODULE Spec2Model ----
(***************************************************************************)
(* A model of the Road Accident Analytics dashboard (src/app.py).          *)
(*                                                                         *)
(* The script loads a CSV once, derives calendar columns from Start_Time,  *)
(* and is re-executed from top to bottom every time a sidebar widget       *)
(* changes.  Every action below is one widget change followed by the whole *)
(* script run: the filter (get_filtered_data, memoised by st.cache_data),  *)
(* the key metrics, the weekday and state group-by-counts, the map         *)
(* sampling and the correlation step.                                      *)
(*                                                                         *)
(* A data frame derived from df is represented by the set of index labels  *)
(* (row positions in df) it holds: pandas boolean indexing, dropna and     *)
(* sample all keep the original index labels, so the labels are the row    *)
(* identities.                                                             *)
(***************************************************************************)
EXTENDS Integers, Sequences, FiniteSets, TLC

\* ------------------------------------------------------------------ bounds
\* Longest session explored: number of widget changes (script reruns).
MaxRuns == 1
\* The map-points slider (500..4000 in the app) scaled to 1..MapPointsMax.
MapPointsMax == 2
\* head(15) of the state ranking, scaled to the handful of states modelled.
TopN == 2

\* ------------------------------------------------------- nulls of pandas
\* NaT / NaN in a numeric or datetime column; every real value is >= 0.
NaN == -1
\* A missing value in a text column.
NA == "<NA>"

\* ------------------------------------------------------ calendar of 2021
DaysInMonth == <<31, 28, 31, 30, 31, 30, 31, 31, 30, 31, 30, 31>>

DayNames ==
  <<"Monday", "Tuesday", "Wednesday", "Thursday", "Friday", "Saturday", "Sunday">>

RECURSIVE DaysBefore(_)
\* Days of 2021 that precede the first day of month m.
DaysBefore(m) == IF m <= 1 THEN 0 ELSE DaysBefore(m - 1) + DaysInMonth[m - 1]

\* pd.to_datetime(..., errors="coerce") on one cell: hours since
\* 2021-01-01 00:00, or NaT when the text names no real instant.
to_datetime(cell) ==
  IF /\ cell.month \in 1..12
     /\ cell.day \in 1..DaysInMonth[cell.month]
     /\ cell.hour \in 0..23
  THEN (DaysBefore(cell.month) + cell.day - 1) * 24 + cell.hour
  ELSE NaN

\* Series.dt.date: the calendar day (ordinal within 2021), NaT stays NaT.
dt_date(ts) == IF ts = NaN THEN NaN ELSE ts \div 24

\* Faulty variant of dt_hour: the hour of a missing timestamp filled with 0.
dt_hour_filled(ts) == IF ts = NaN THEN 0 ELSE ts % 24

\* Series.dt.hour
dt_hour(ts) == IF ts = NaN THEN NaN ELSE ts % 24

\* Series.dt.month
dt_month(ts) ==
  IF ts = NaN THEN NaN
  ELSE CHOOSE m \in 1..12 :
         /\ DaysBefore(m) <= ts \div 24
         /\ ts \div 24 < DaysBefore(m) + DaysInMonth[m]

\* Series.dt.day_name(): 2021-01-01 was a Friday.
dt_day_name(ts) == IF ts = NaN THEN NA ELSE DayNames[(((ts \div 24) + 4) % 7) + 1]

\* ------------------------------------------------------------ the CSV file
\* Rows the file may hold.  Row 3 carries the text "2021-02-30 10:00", which
\* is no date; rows 2, 4 and 6 miss a weather, coordinate or sensor value.
CsvRows == <<
  [Start_Time |-> [month |-> 1, day |-> 4, hour |-> 6], State |-> "CA",
   Severity |-> 1, Weather_Condition |-> "Clear", Start_Lat |-> 34,
   Start_Lng |-> 118, Visibility |-> 10, Temperature |-> 60, Wind_Speed |-> 5],
  [Start_Time |-> [month |-> 2, day |-> 6, hour |-> 9], State |-> "CA",
   Severity |-> 2, Weather_Condition |-> "Rain", Start_Lat |-> 36,
   Start_Lng |-> 120, Visibility |-> 4, Temperature |-> NaN, Wind_Speed |-> 9],
  [Start_Time |-> [month |-> 2, day |-> 30, hour |-> 10], State |-> "NY",
   Severity |-> 3, Weather_Condition |-> "Rain", Start_Lat |-> 40,
   Start_Lng |-> 74, Visibility |-> 2, Temperature |-> 41, Wind_Speed |-> 12],
  [Start_Time |-> [month |-> 12, day |-> 31, hour |-> 23], State |-> "NY",
   Severity |-> 2, Weather_Condition |-> NA, Start_Lat |-> NaN,
   Start_Lng |-> 73, Visibility |-> 7, Temperature |-> 30, Wind_Speed |-> 3],
  [Start_Time |-> [month |-> 1, day |-> 4, hour |-> 5], State |-> "TX",
   Severity |-> 3, Weather_Condition |-> "Clear", Start_Lat |-> 30,
   Start_Lng |-> 97, Visibility |-> 10, Temperature |-> 70, Wind_Speed |-> 8],
  [Start_Time |-> [month |-> 2, day |-> 6, hour |-> 8], State |-> NA,
   Severity |-> 1, Weather_Condition |-> "Clear", Start_Lat |-> 33,
   Start_Lng |-> NaN, Visibility |-> 9, Temperature |-> 55, Wind_Speed |-> NaN]
>>

\* The files the dashboard may be started on: any run of consecutive rows of
\* CsvRows (the empty file included).
CsvFiles ==
  {SubSeq(CsvRows, a, b) : a \in 1..(Len(CsvRows) + 1), b \in 0..Len(CsvRows)}

\* load_data: parse Start_Time and attach Date, Hour, Month and Day.
load_data(csv) ==
  [i \in 1..Len(csv) |->
     LET ts == to_datetime(csv[i].Start_Time) IN
     [Start_Time |-> ts,
      Date |-> dt_date(ts),
      Hour |-> dt_hour(ts),
      Month |-> dt_month(ts),
      Day |-> dt_day_name(ts),
      State |-> csv[i].State,
      Severity |-> csv[i].Severity,
      Weather_Condition |-> csv[i].Weather_Condition,
      Start_Lat |-> csv[i].Start_Lat,
      Start_Lng |-> csv[i].Start_Lng,
      Visibility |-> csv[i].Visibility,
      Temperature |-> csv[i].Temperature,
      Wind_Speed |-> csv[i].Wind_Speed]]


\* Lines 30-36: the table the rest of the script works on.  astype("category")
\* changes the column types, not the values.
\*   df            the loaded table, never written after the load
\*   observed      the default of groupby(observed=...) in the installed
\*                 pandas: False before 3.0, True from 3.0 on
\*   status        "running", or "failed" when the script stopped at start-up
\*   state .. map_view   the values of the widgets
\*   cache         the results st.cache_data remembers for get_filtered_data
\*   filtered_df .. corr the outputs of the latest script run
\*   runs          number of reruns so far
VARIABLES df, observed, status,
          state, severity, weather, day, date_range, hour_range, month_range,
          map_points, map_view,
          cache, filtered_df, avg_severity, fig3, state_counts, map_df, corr,
          runs

vars == <<df, observed, status, state, severity, weather, day, date_range,
          hour_range, month_range, map_points, map_view, cache, filtered_df,
          avg_severity, fig3, state_counts, map_df, corr, runs>>

\* ------------------------------------------------------ pandas primitives
\* Python's sorted() on labels: every label of the model in lexicographic order.
SortedLabels ==
  <<"CA", "Clear", "Friday", "Monday", "NY", "Rain", "Saturday", "Sunday",
    "TX", "Thursday", "Tuesday", "Wednesday">>

\* sorted(S) for a set of labels S.
sorted(S) == LET In(x) == x \in S IN SelectSeq(SortedLabels, In)

\* The set of elements of a sequence.
Range(s) == {s[i] : i \in 1..Len(s)}

\* Series >= scalar on an object column (pandas scalar_compare): a null on
\* either side compares False, it never raises.
ge(x, y) == x # NaN /\ y # NaN /\ x >= y

\* Series <= scalar, same null rule.
le(x, y) == x # NaN /\ y # NaN /\ x <= y

\* Series.isin(values): whether the cell is one of the values; the options a
\* selection is made of hold no null, so a missing cell is in no selection.
isin(x, values) == x \in values

\* Faulty variant of between: both ends excluded.
between_exclusive(x, left, right) ==
  x # NaN /\ left # NaN /\ right # NaN /\ x > left /\ x < right

\* Series.between(left, right), inclusive="both": (s >= left) & (s <= right).
between(x, left, right) == ge(x, left) /\ le(x, right)

RECURSIVE Sum(_, _)
\* Sum of col over the rows of a frame.
Sum(frame, col) ==
  IF frame = {} THEN 0
  ELSE LET i == CHOOSE j \in frame : TRUE IN df[i][col] + Sum(frame \ {i}, col)

\* ------------------------------------------------------ sidebar (lines 45-87)
\* all_states = sorted(df["State"].dropna().unique())
all_states == sorted({df[i].State : i \in DOMAIN df} \ {NA})

\* all_severity = sorted(df["Severity"].unique()); only membership is used.
all_severity == {df[i].Severity : i \in DOMAIN df}

\* all_weather = sorted(df["Weather_Condition"].dropna().unique())
all_weather == sorted({df[i].Weather_Condition : i \in DOMAIN df} \ {NA})

\* The dates of the rows whose timestamp parsed.
Dates == {df[i].Date : i \in DOMAIN df} \ {NaN}

\* min_date = df["Date"].min()
min_date == CHOOSE d \in Dates : \A e \in Dates : d <= e

\* max_date = df["Date"].max()
max_date == CHOOSE d \in Dates : \A e \in Dates : d >= e

\* Number of states preselected in the State multiselect.
DefaultStates == 10

\* default=all_states[:10]
default_state ==
  Range(SubSeq(all_states, 1, IF Len(all_states) < DefaultStates
                              THEN Len(all_states) ELSE DefaultStates))

\* Date safety check: a pair of dates is used as given, anything else falls
\* back to the dataset's first and last date.
start_date(dr) == IF Len(dr) = 2 THEN dr[1] ELSE min_date

\* Faulty variant of end_date: a lone date is taken as the end of the range.
end_date_single(dr) == IF Len(dr) = 2 THEN dr[2] ELSE dr[1]

\* Second half of the date safety check.
end_date(dr) == IF Len(dr) = 2 THEN dr[2] ELSE max_date

\* ------------------------------------------- get_filtered_data (lines 90-114)
\* Faulty variant of filter_isin: the "if sel:" test left out, so that an empty
\* selection matches nothing.
filter_isin_always(table, frame, col, sel) ==
  {i \in frame : isin(table[i][col], sel)}

\* Lines 100-107, one categorical filter: "if sel:" is false for an empty
\* list, and the frame is then left as it is.
filter_isin(table, frame, col, sel) ==
  IF sel # {} THEN {i \in frame : isin(table[i][col], sel)} ELSE frame

\* The body of get_filtered_data.
get_filtered_data(table, st, sv, w, d, hr, mr, sd, ed) ==
  LET f0 == DOMAIN table
      f1 == {i \in f0 : ge(table[i].Date, sd) /\ le(table[i].Date, ed)}
      f2 == filter_isin(table, f1, "State", st)
      f3 == filter_isin(table, f2, "Severity", sv)
      f4 == filter_isin(table, f3, "Weather_Condition", w)
      f5 == filter_isin(table, f4, "Day", d)
  IN {i \in f5 : /\ between(table[i].Hour, hr[1], hr[2])
                 /\ between(table[i].Month, mr[1], mr[2])}

\* Faulty variant of cache_key: month_range left out of the hashed arguments
\* (every call is taken for one with the full range).
cache_key_no_month(st, sv, w, d, hr, mr, sd, ed) ==
  [state |-> st, severity |-> sv, weather |-> w, day |-> d, hour_range |-> hr,
   month_range |-> <<1, 12>>, start_date |-> sd, end_date |-> ed]

\* The arguments st.cache_data hashes to find an earlier result (df is the
\* same object for the whole session).
cache_key(st, sv, w, d, hr, mr, sd, ed) ==
  [state |-> st, severity |-> sv, weather |-> w, day |-> d, hour_range |-> hr,
   month_range |-> mr, start_date |-> sd, end_date |-> ed]

\* @st.cache_data around get_filtered_data: an earlier result for the same
\* arguments is returned, otherwise the body runs.
cached_get_filtered_data(memo, st, sv, w, d, hr, mr, sd, ed) ==
  LET k == cache_key(st, sv, w, d, hr, mr, sd, ed) IN
  IF \E e \in memo : e.key = k
  THEN (CHOOSE e \in memo : e.key = k).value
  ELSE get_filtered_data(df, st, sv, w, d, hr, mr, sd, ed)

\* The memo after the call: the arguments and the result are recorded.
cache_after(memo, st, sv, w, d, hr, mr, sd, ed) ==
  LET k == cache_key(st, sv, w, d, hr, mr, sd, ed) IN
  IF \E e \in memo : e.key = k THEN memo
  ELSE memo \cup {[key |-> k,
                   value |-> get_filtered_data(df, st, sv, w, d, hr, mr, sd, ed)]}

\* ------------------------------------------------- key metrics (line 123)
\* round(Series.mean(), 2) in hundredths, rounding half to even as Python
\* does; the mean of no rows is NaN.
round2_mean(frame) ==
  IF frame = {} THEN NaN
  ELSE LET n == Cardinality(frame)
           q == (100 * Sum(frame, "Severity")) \div n
           r == (100 * Sum(frame, "Severity")) % n
       IN IF 2 * r < n THEN q
          ELSE IF 2 * r > n THEN q + 1
          ELSE IF q % 2 = 0 THEN q ELSE q + 1

\* Faulty variant of average_severity: the mean taken without the guard on
\* the number of rows.
average_severity_unguarded(frame) == round2_mean(frame)

\* "Average Severity": round(mean, 2) if len(filtered_df) > 0 else 0
average_severity(frame) ==
  IF Cardinality(frame) > 0 THEN round2_mean(frame) ELSE 0

\* ------------------------------------------------ group-by-counts (tab 1)
\* Categories of a column after astype("category"): the sorted distinct
\* non-null values of the whole table.
categories(col) == sorted({df[i][col] : i \in DOMAIN df} \ {NA})

\* frame.groupby(col).size() on a categorical column: one entry per category
\* in category order; with observed=True only the categories that occur.
groupby_size(frame, col, obs) ==
  LET count(c) == Cardinality({i \in frame : df[i][col] = c})
      Kept(c) == ~obs \/ count(c) > 0
      cats == SelectSeq(categories(col), Kept)
  IN [k \in 1..Len(cats) |-> [label |-> cats[k], Count |-> count(cats[k])]]

\* .reindex(labels): the entry of each label in the given order, NaN for a
\* label the index does not hold.
reindex(series, labels) ==
  [k \in 1..Len(labels) |->
     [label |-> labels[k],
      Count |-> IF \E j \in 1..Len(series) : series[j].label = labels[k]
                THEN (CHOOSE e \in Range(series) : e.label = labels[k]).Count
                ELSE NaN]]

\* Data of "Accidents by Day of Week" (lines 155-158).
weekday_counts(frame, obs) == reindex(groupby_size(frame, "Day", obs), DayNames)

\* Whether a sequence of counts never increases.
Descending(s) == \A a, b \in 1..Len(s) : a < b => s[a].Count >= s[b].Count

\* Faulty variant of sort_values_desc: the rows in ascending order.
sort_values_asc(series) ==
  LET n == Len(series)
      perms == {p \in [1..n -> 1..n] : \A a, b \in 1..n : a # b => p[a] # p[b]}
  IN {s \in {[k \in 1..n |-> series[p[k]]] : p \in perms} :
        \A a, b \in 1..n : a < b => s[a].Count <= s[b].Count}

\* .sort_values(by, ascending=False) with the default kind="quicksort": the
\* rows in descending order; the sort is not stable, so rows with equal keys
\* may come out in any order.
sort_values_desc(series) ==
  LET n == Len(series)
      perms == {p \in [1..n -> 1..n] : \A a, b \in 1..n : a # b => p[a] # p[b]}
  IN {s \in {[k \in 1..n |-> series[p[k]]] : p \in perms} : Descending(s)}

\* .head(n)
head(s, n) == SubSeq(s, 1, IF Len(s) < n THEN Len(s) ELSE n)

\* Data of "Top 15 Accident-Prone States" (lines 175-181), every outcome the
\* sort may produce.
top_states(frame, obs) ==
  {head(s, TopN) : s \in sort_values_desc(groupby_size(frame, "State", obs))}

\* ----------------------------------------------------- map input (tab 2)
\* One step of the pseudo-random generator behind np.random.RandomState (a
\* small linear congruential generator stands for the Mersenne twister).
next_random(x) == (75 * x + 74) % 65537

RECURSIVE permutation(_, _)
\* RandomState.permutation: a shuffle of seq driven by the generator state x.
permutation(seq, x) ==
  IF Len(seq) <= 1 THEN seq
  ELSE LET x1 == next_random(x)
           j == (x1 % Len(seq)) + 1
           rest == [k \in 1..(Len(seq) - 1) |-> IF k < j THEN seq[k] ELSE seq[k + 1]]
       IN <<seq[j]>> \o permutation(rest, x1)

RECURSIVE ascending(_)
\* The labels of a frame in index order.
ascending(frame) ==
  IF frame = {} THEN <<>>
  ELSE LET m == CHOOSE i \in frame : \A j \in frame : i >= j
       IN Append(ascending(frame \ {m}), m)

\* DataFrame.sample(n=n, random_state=seed): the first n rows of a seeded
\* permutation of the frame.
sample(frame, n, seed) == Range(SubSeq(permutation(ascending(frame), seed), 1, n))

\* Faulty variant of random_state: no fixed seed, every run of the script
\* draws from a generator state of its own.
random_state_unseeded(run) == 42 + run

\* The seed passed to sample, the same in every run of the script.
random_state(run) == 42

\* filtered_df.dropna(subset=["Start_Lat", "Start_Lng"])
dropna_coords(frame) ==
  {i \in frame : df[i].Start_Lat # NaN /\ df[i].Start_Lng # NaN}

\* Lines 205-208: the rows handed to the map by the run-th execution of the
\* script.
map_input(frame, cap, run) ==
  LET located == dropna_coords(frame) IN
  IF Cardinality(located) > cap THEN sample(located, cap, random_state(run))
  ELSE located

\* --------------------------------------------------- correlation (tab 4)
\* Faulty variant of corr_df: the rows with a missing input kept.
corr_df_all(frame) == frame

\* filtered_df[corr_cols].dropna()
corr_df(frame) ==
  {i \in frame : /\ df[i].Severity # NaN
                 /\ df[i].Visibility # NaN
                 /\ df[i].Temperature # NaN
                 /\ df[i].Wind_Speed # NaN}

\* Lines 282-289: a warning when no row is left, otherwise the matrix of the
\* rows that are left.
correlation(frame) ==
  IF Cardinality(corr_df(frame)) = 0
  THEN [kind |-> "warning", rows |-> {}]
  ELSE [kind |-> "matrix", rows |-> corr_df(frame)]

\* ------------------------------------------------------ the script run
\* Lines 49-50 and 73-78: without a single parsed date there is no date to
\* hand to the date picker and the script stops.  On a column that mixes dates
\* and NaT, Series.min() of an object column either skips the nulls or refuses
\* to compare them, depending on the pandas build.
startup_outcomes(table) ==
  IF \A i \in DOMAIN table : table[i].Date = NaN THEN {"failed"}
  ELSE IF \E i \in DOMAIN table : table[i].Date = NaN THEN {"running", "failed"}
  ELSE {"running"}

\* Hours the two handles of the slider of line 80 are moved to.
HourMarks == {0, 5, 6, 9, 10, 23}

\* Positions of the hour slider: a lower and an upper handle.
HourRanges == {r \in HourMarks \X HourMarks : r[1] <= r[2]}

\* Months the two handles of the slider of line 81 are moved to.
MonthMarks == {1, 2, 12}

\* Positions of the month slider.
MonthRanges == {r \in MonthMarks \X MonthMarks : r[1] <= r[2]}

\* Selections tried in the "Day of Week" multiselect (lines 68-71).
DaySelections ==
  {{}} \cup {{DayNames[k]} : k \in 1..7}
       \cup {{"Saturday", "Sunday"}, {"Monday", "Friday", "Saturday"}}

\* One run of lines 83-289 with the given widget values, the (runs + 1)-th
\* after the first.
Script(st, sv, w, d, dr, hr, mr, mp, mv) ==
  /\ state' = st
  /\ severity' = sv
  /\ weather' = w
  /\ day' = d
  /\ date_range' = dr
  /\ hour_range' = hr
  /\ month_range' = mr
  /\ map_points' = mp
  /\ map_view' = mv
  /\ filtered_df' = cached_get_filtered_data(cache, st, sv, w, d, hr, mr,
                                             start_date(dr), end_date(dr))
  /\ cache' = cache_after(cache, st, sv, w, d, hr, mr, start_date(dr),
                          end_date(dr))
  /\ avg_severity' = average_severity(filtered_df')
  /\ fig3' = weekday_counts(filtered_df', observed)
  /\ state_counts' \in top_states(filtered_df', observed)
  /\ map_df' = map_input(filtered_df', mp, runs + 1)
  /\ corr' = correlation(filtered_df')
  /\ runs' = runs + 1
  /\ UNCHANGED <<df, observed, status>>

\* Whether the user can still change a widget.
CanChange == status = "running" /\ runs < MaxRuns

\* State after the first execution of the script with every widget at its
\* default.
Init ==
  \E csv \in CsvFiles :
    /\ df = load_data(csv)
    /\ observed \in BOOLEAN
    /\ status \in startup_outcomes(df)
    /\ runs = 0
    /\ map_view = "Hotspots Heatmap"
    /\ hour_range = <<0, 23>>
    /\ month_range = <<1, 12>>
    /\ severity = {}
    /\ weather = {}
    /\ day = {}
    /\ map_points = MapPointsMax
    /\ IF status = "running"
       THEN /\ state = default_state
            /\ date_range = <<min_date, max_date>>
            /\ filtered_df = get_filtered_data(df, state, severity, weather, day,
                                               hour_range, month_range,
                                               min_date, max_date)
            /\ cache = cache_after({}, state, severity, weather, day, hour_range,
                                   month_range, min_date, max_date)
            /\ avg_severity = average_severity(filtered_df)
            /\ fig3 = weekday_counts(filtered_df, observed)
            /\ state_counts \in top_states(filtered_df, observed)
            /\ map_df = map_input(filtered_df, map_points, runs)
            /\ corr = correlation(filtered_df)
       ELSE /\ state = {}
            /\ date_range = <<>>
            /\ filtered_df = {}
            /\ cache = {}
            /\ avg_severity = 0
            /\ fig3 = <<>>
            /\ state_counts = <<>>
            /\ map_df = {}
            /\ corr = [kind |-> "none", rows |-> {}]

\* State multiselect (lines 52-56).
SetState ==
  /\ CanChange
  /\ \E st \in SUBSET Range(all_states) :
       /\ st # state
       /\ Script(st, severity, weather, day, date_range, hour_range, month_range,
                 map_points, map_view)

\* Severity multiselect (lines 58-61).
SetSeverity ==
  /\ CanChange
  /\ \E sv \in SUBSET all_severity :
       /\ sv # severity
       /\ Script(state, sv, weather, day, date_range, hour_range, month_range,
                 map_points, map_view)

\* Weather multiselect (lines 63-66).
SetWeather ==
  /\ CanChange
  /\ \E w \in SUBSET Range(all_weather) :
       /\ w # weather
       /\ Script(state, severity, w, day, date_range, hour_range, month_range,
                 map_points, map_view)

\* Day multiselect (lines 68-71).
SetDay ==
  /\ CanChange
  /\ \E d \in DaySelections :
       /\ d # day
       /\ Script(state, severity, weather, d, date_range, hour_range, month_range,
                 map_points, map_view)

\* Date picker (lines 73-78): a pair of dates within [min_date, max_date], or
\* a single date while the user has picked only one end.
SetDateRange ==
  /\ CanChange
  /\ \E dr \in {<<a, b>> : a, b \in Dates} \cup {<<a>> : a \in Dates} :
       /\ dr # date_range
       /\ Len(dr) = 2 => dr[1] <= dr[2]
       /\ Script(state, severity, weather, day, dr, hour_range, month_range,
                 map_points, map_view)

\* Hour slider (line 80).
SetHourRange ==
  /\ CanChange
  /\ \E hr \in HourRanges :
       /\ hr # hour_range
       /\ Script(state, severity, weather, day, date_range, hr, month_range,
                 map_points, map_view)

\* Month slider (line 81).
SetMonthRange ==
  /\ CanChange
  /\ \E mr \in MonthRanges :
       /\ mr # month_range
       /\ Script(state, severity, weather, day, date_range, hour_range, mr,
                 map_points, map_view)

\* Map-points slider (line 197).
SetMapPoints ==
  /\ CanChange
  /\ \E mp \in 1..MapPointsMax :
       /\ mp # map_points
       /\ Script(state, severity, weather, day, date_range, hour_range,
                 month_range, mp, map_view)

\* Map-view radio (lines 199-203): the script reruns with the same filters.
SetMapView ==
  /\ CanChange
  /\ \E mv \in {"Hotspots Heatmap", "Marker Clusters"} :
       /\ mv # map_view
       /\ Script(state, severity, weather, day, date_range, hour_range,
                 month_range, map_points, mv)

Next ==
  \/ SetState
  \/ SetSeverity
  \/ SetWeather
  \/ SetDay
  \/ SetDateRange
  \/ SetHourRange
  \/ SetMonthRange
  \/ SetMapPoints
  \/ SetMapView

Spec == Init /\ [][Next]_vars

\* ==================================================== checked properties
\* The dashboard got past its start-up and shows a filtered view.
Running == status = "running"

\* Row i has a date within the date range in force (both ends included).
InDates(i) ==
  /\ df[i].Date # NaN
  /\ start_date(date_range) <= df[i].Date
  /\ df[i].Date <= end_date(date_range)

\* Row i has an hour and a month within the two sliders (both ends included).
InSliders(i) ==
  /\ df[i].Hour # NaN
  /\ hour_range[1] <= df[i].Hour /\ df[i].Hour <= hour_range[2]
  /\ df[i].Month # NaN
  /\ month_range[1] <= df[i].Month /\ df[i].Month <= month_range[2]

\* Row i is a member of the selection of a categorical dimension, when there
\* is a selection.
InState(i) == state # {} => df[i].State \in state
InSeverity(i) == severity # {} => df[i].Severity \in severity
InWeather(i) == weather # {} => df[i].Weather_Condition \in weather
InDay(i) == day # {} => df[i].Day \in day

\* C1: the filtered view holds exactly the rows of the base table that satisfy
\* every predicate at once: date within [start_date, end_date], membership in
\* each non-empty categorical selection, hour and month within their ranges;
\* it holds no row that is not in the base table.
C1_FilterIsConjunction ==
  Running =>
    /\ filtered_df \subseteq DOMAIN df
    /\ filtered_df = {i \in DOMAIN df :
                        /\ InDates(i) /\ InSliders(i)
                        /\ InState(i) /\ InSeverity(i)
                        /\ InWeather(i) /\ InDay(i)}

\* C1 witness: the hour range (6, 9) keeps a row at each end of the range and
\* drops a dated row at hour 5.
C1_Witness ==
  /\ Running
  /\ hour_range = <<6, 9>>
  /\ \E i, j \in filtered_df : df[i].Hour = 6 /\ df[j].Hour = 9
  /\ \E k \in DOMAIN df \ filtered_df : df[k].Hour = 5 /\ InState(k)

\* C2: an empty selection in a categorical dimension does not filter on that
\* dimension: every row that passes the other criteria is in the result,
\* whatever its value (a missing value included) in that dimension.
C2_EmptySelectionIsNoOp ==
  Running =>
    \A i \in DOMAIN df :
      /\ (state = {} /\ InDates(i) /\ InSliders(i) /\ InSeverity(i)
            /\ InWeather(i) /\ InDay(i)) => i \in filtered_df
      /\ (severity = {} /\ InDates(i) /\ InSliders(i) /\ InState(i)
            /\ InWeather(i) /\ InDay(i)) => i \in filtered_df
      /\ (weather = {} /\ InDates(i) /\ InSliders(i) /\ InState(i)
            /\ InSeverity(i) /\ InDay(i)) => i \in filtered_df
      /\ (day = {} /\ InDates(i) /\ InSliders(i) /\ InState(i)
            /\ InSeverity(i) /\ InWeather(i)) => i \in filtered_df

\* C2 witness: the State selection was emptied and a row without a state is
\* in the result next to a row with one.
C2_Witness ==
  /\ Running
  /\ runs > 0
  /\ state = {}
  /\ \E i, j \in filtered_df : df[i].State = NA /\ df[j].State # NA

\* C3 (as claimed): the weekday output lists the seven days from Monday to
\* Sunday and gives 0 to every day that has no row in the filtered view.
C3_WeekdayCountsZeroFilled ==
  Running =>
    /\ Len(fig3) = 7
    /\ \A k \in 1..7 :
         /\ fig3[k].label = DayNames[k]
         /\ fig3[k].Count = Cardinality({i \in filtered_df : df[i].Day = DayNames[k]})

\* The filtered rows that have both coordinates.
Located == {i \in filtered_df : df[i].Start_Lat # NaN /\ df[i].Start_Lng # NaN}

\* C4 (as claimed): the number of filtered rows decides whether the map gets
\* every located row or exactly map_points of them.
C4_CapOnFilteredCount ==
  Running =>
    /\ Cardinality(filtered_df) <= map_points => map_df = Located
    /\ Cardinality(filtered_df) > map_points =>
         Cardinality(map_df) = map_points /\ map_df \subseteq Located

\* C4 (amended): the number of filtered rows that have coordinates decides: at
\* most map_points of them and the map gets them all, more and it gets exactly
\* map_points of them; a rerun on the same rows with the same cap draws the
\* same rows.
C4_MapSampling ==
  /\ [](Running =>
         /\ Cardinality(Located) <= map_points => map_df = Located
         /\ Cardinality(Located) > map_points =>
              Cardinality(map_df) = map_points /\ map_df \subseteq Located)
  /\ [][(filtered_df' = filtered_df /\ map_points' = map_points)
          => map_df' = map_df]_vars

\* C4 witness: more located rows than the cap, and the script has rerun on
\* them (the map view was switched) and produced the sample again.
C4_Witness ==
  /\ Running
  /\ map_view = "Marker Clusters"
  /\ Cardinality(Located) > map_points
  /\ Cardinality(map_df) = map_points

\* C5: a record whose timestamp did not parse carries a null Date, Hour, Month
\* and Day, fails the date, the hour and the month predicate, and is in no
\* filtered view.
C5_UnparsedRowsExcluded ==
  Running =>
    \A i \in DOMAIN df :
      df[i].Start_Time = NaN =>
        /\ df[i].Date = NaN /\ df[i].Hour = NaN /\ df[i].Month = NaN
        /\ df[i].Day = NA
        /\ ~(/\ ge(df[i].Date, start_date(date_range))
             /\ le(df[i].Date, end_date(date_range)))
        /\ ~between(df[i].Hour, hour_range[1], hour_range[2])
        /\ ~between(df[i].Month, month_range[1], month_range[2])
        /\ i \notin filtered_df

\* C5 witness: a table with an unparsed row next to parsed ones, filtered
\* with no restriction at all, and rows are shown.
C5_Witness ==
  /\ Running
  /\ \E i \in DOMAIN df : df[i].Start_Time = NaN
  /\ state = {} /\ severity = {} /\ weather = {} /\ day = {}
  /\ Len(date_range) = 2
  /\ filtered_df # {}

\* C6: when the date picker holds anything but a pair of dates, the filter
\* runs on [min_date, max_date], and the date predicate drops no dated row:
\* every dated row that passes the other criteria is in the result.
C6_SingleDateFallsBack ==
  (Running /\ Len(date_range) # 2) =>
    /\ start_date(date_range) = min_date
    /\ end_date(date_range) = max_date
    /\ \A i \in DOMAIN df :
         (/\ df[i].Date # NaN /\ InSliders(i) /\ InState(i) /\ InSeverity(i)
          /\ InWeather(i) /\ InDay(i)) => i \in filtered_df

\* C6 witness: a single date is in the picker and a row of another date is in
\* the result.
C6_Witness ==
  /\ Running
  /\ Len(date_range) = 1
  /\ \E i \in filtered_df : df[i].Date # date_range[1]

\* C7: the mean-severity metric is 0 on an empty filtered view; otherwise it
\* is the mean of Severity over the filtered rows, to the nearest hundredth.
C7_MeanSeverity ==
  Running =>
    /\ filtered_df = {} => avg_severity = 0
    /\ filtered_df # {} =>
         LET n == Cardinality(filtered_df)
             total == 100 * Sum(filtered_df, "Severity")
         IN /\ avg_severity # NaN
            /\ 2 * (avg_severity * n - total) <= n
            /\ 2 * (total - avg_severity * n) <= n

\* C7 witness: no row passes the filters and the metric shows 0.
C7_Witness == Running /\ runs > 0 /\ filtered_df = {} /\ avg_severity = 0

\* The filtered rows in which Severity, Visibility, Temperature and Wind Speed
\* are all present.
FullyPopulated ==
  {i \in filtered_df : /\ df[i].Severity # NaN /\ df[i].Visibility # NaN
                       /\ df[i].Temperature # NaN /\ df[i].Wind_Speed # NaN}

\* C8: the correlation matrix is computed over the fully populated filtered
\* rows only; without such a row the step reports "not enough data" and
\* computes no matrix.
C8_Correlation ==
  Running =>
    /\ FullyPopulated = {} => corr = [kind |-> "warning", rows |-> {}]
    /\ FullyPopulated # {} => corr = [kind |-> "matrix", rows |-> FullyPopulated]

\* C8 witness: rows pass the filters, each misses a correlation input, and
\* the step reports the warning.
C8_Witness ==
  /\ Running
  /\ filtered_df # {}
  /\ FullyPopulated = {}
  /\ corr.kind = "warning"

\* C9: whatever filter changes came before, the view shown is what a fresh
\* application of the filter to the base table gives for the criteria in
\* force, every remembered result is what a fresh application gives for its
\* criteria, and no run changes the base table.
C9_ReferentiallyTransparent ==
  /\ [](Running =>
         /\ filtered_df =
              get_filtered_data(df, state, severity, weather, day, hour_range,
                                month_range, start_date(date_range),
                                end_date(date_range))
         /\ \A e \in cache :
              e.value = get_filtered_data(df, e.key.state, e.key.severity,
                                          e.key.weather, e.key.day,
                                          e.key.hour_range, e.key.month_range,
                                          e.key.start_date, e.key.end_date))
  /\ [][df' = df]_vars

\* C9 witness: the criteria were changed after a first view, two results are
\* remembered, and the view shown is not the earlier one.
C9_Witness ==
  /\ Running
  /\ runs > 0
  /\ Cardinality(cache) = 2
  /\ \E e \in cache : e.value # filtered_df

\* Position of a state in the natural order of the grouping.
GroupPosition(label) == CHOOSE k \in 1..Len(all_states) : all_states[k] = label

\* Number of filtered rows of a state.
StateCount(label) == Cardinality({i \in filtered_df : df[i].State = label})

\* The states ranked, with their counts right, no state twice, in descending
\* order of count, and no state left out that has more rows than a listed one.
TopStatesRanked ==
  /\ Len(state_counts) <= TopN
  /\ \A k \in 1..Len(state_counts) :
       /\ state_counts[k].label \in Range(all_states)
       /\ state_counts[k].Count = StateCount(state_counts[k].label)
  /\ \A a, b \in 1..Len(state_counts) :
       /\ a # b => state_counts[a].label # state_counts[b].label
       /\ a < b => state_counts[a].Count >= state_counts[b].Count
  /\ \A s \in Range(all_states) :
       (\A k \in 1..Len(state_counts) : state_counts[k].label # s) =>
         /\ Len(state_counts) = TopN \/ StateCount(s) = 0
         /\ \A k \in 1..Len(state_counts) : state_counts[k].Count >= StateCount(s)
  /\ filtered_df = {} => \A k \in 1..Len(state_counts) : state_counts[k].Count = 0

\* C10 (as claimed): the ranking is as above and states with equal counts
\* keep the natural order of the grouping.
C10_TiesKeepGroupOrder ==
  Running =>
    /\ TopStatesRanked
    /\ \A a, b \in 1..Len(state_counts) :
         (a < b /\ state_counts[a].Count = state_counts[b].Count) =>
           GroupPosition(state_counts[a].label) < GroupPosition(state_counts[b].label)

\* C10 (amended): at most TopN states, those with the highest counts in the
\* filtered view, in descending order of count, all zero or none on an empty
\* view; the order among states with equal counts is not fixed.
C10_TopStates == Running => TopStatesRanked

\* C10 witness: three states compete for the listed places, the first listed
\* has more rows than the second, and a state is left out.
C10_Witness ==
  /\ Running
  /\ Len(all_states) > TopN
  /\ Len(state_counts) = TopN
  /\ state_counts[1].Count > state_counts[Len(state_counts)].Count

=============================================================================
